---- MODULE Spec2Model ----
(***************************************************************************)
(* Model of src/app.py: the BTC long/short trading game.                   *)
(*                                                                         *)
(* State: the engine's shared price (trading_engine.btc_price), the SQLite *)
(* database (users.balance, trades, deposits) and the request threads of   *)
(* the Flask server, each running one of the handlers deposit, trade and   *)
(* close_trade on its own connection.                                      *)
(*                                                                         *)
(* Numbers.  The program computes in binary floating point; the model      *)
(* computes the same expressions exactly, in fixed point:                  *)
(*   - a price is held in units of 100 USD      (500 is 50000 USD),        *)
(*   - an amount (size) in units of 0.01 BTC    (10 is 0.1 BTC),           *)
(*   - money (balance, margin, fee, pnl) in units of 0.001 USD.            *)
(* With these units every product the program forms is an integer, and     *)
(* round(pnl, 2) is a rounding to a multiple of 10 (one cent).             *)
(*                                                                         *)
(* Database.  Each handler opens its own connection (get_db).  Python's    *)
(* sqlite3 begins a transaction before the first INSERT/UPDATE of a        *)
(* connection and SQLite gives the write lock to one connection at a time; *)
(* the writes of a transaction are seen by other connections only after    *)
(* commit().  SELECTs outside a transaction read the committed database.   *)
(* db is the committed database, writer the thread holding the write lock  *)
(* and tx the writer's working copy (equal to db when nobody writes).      *)
(*                                                                         *)
(* Requests.  Each request thread serves one client; the client's session  *)
(* cookie (set by login()) is fixed during a run, and so are the order     *)
(* forms the clients submit and the answers the upstream ticker can give;  *)
(* Init draws them, so that each specification states its inputs.  A step  *)
(* that ends a handler emits its HTTP response; response holds the         *)
(* response emitted by the last step, if any.  CURRENT_TIMESTAMP is a      *)
(* logical clock: every evaluation returns a later value.                  *)
(***************************************************************************)
EXTENDS Integers, Sequences, FiniteSets, TLC

VARIABLES
    btc_price,   \* trading_engine.btc_price
    timers,      \* number of pending threading.Timer objects of update_price
    db,          \* committed database: [balance, trades, deposits]
    writer,      \* thread whose connection holds SQLite's write lock, or NoWriter
    tx,          \* the writer's uncommitted working copy of the database
    session,     \* per request thread: session['user_id'] of its client, or NoUser
    forms,       \* the order forms the clients submit in this run
    fetches,     \* the outcomes get_btc_price's fetch can have in this run
    th,          \* per request thread: position in its handler and its locals
    response,    \* the HTTP response emitted by the last step, or NoResponse
    now,         \* logical value of CURRENT_TIMESTAMP
    nRequests,   \* number of requests that entered the body of a handler
    ledger,      \* history: per user the sums of deposits, open debits and close credits
    credited     \* history: per trade id the number of committed closes

vars == <<btc_price, timers, db, writer, tx, session, forms, fetches, th, response, now, nRequests, ledger, credited>>

---------------------------------------------------------------------------
(* Bound of the model *)

MaxRequests == 3    \* requests that enter the body of deposit, trade or close_trade

---------------------------------------------------------------------------
(* Program constants, in the model's units *)

InitialBalance == 10000000   \* users.balance DEFAULT 10000.0
MarginFactor == 10           \* price * amount * leverage * 0.01  (100 USD * 0.01 BTC * 0.01 = 0.010 USD)
FeeFactor == 1               \* price * amount * 0.001            (100 USD * 0.01 BTC * 0.001 = 0.001 USD)
PnlFactor == 1000            \* price difference * amount * leverage (100 USD * 0.01 BTC = 1 USD)
Cent == 10                   \* round(pnl, 2): one cent is 10 units of money
FallbackLow == 300           \* random.uniform(30000, 60000)
FallbackHigh == 600
NULL == 0                    \* closed_at of a trade that was never closed
NoUser == 0                  \* 'user_id' not in session
NoWriter == 0                \* no connection holds the write lock

Users == {1, 2}              \* ids of the registered users
Threads == {1, 2}            \* concurrent request threads of the server

\* the sessions of the two clients: both logged in as user 1, or the second not logged in
Sessions == { <<1, 1>>, <<1, NoUser>> }

\* values the upstream ticker returns in a well-formed response
UpstreamPrices == {500, 510}
\* sampled results of random.uniform(30000, 60000) when the fetch fails
FallbackSamples == {r \in {500} : FallbackLow <= r /\ r <= FallbackHigh}
\* outcomes of one call of get_btc_price
Fetches ==
    [ok : {TRUE}, price : UpstreamPrices, random : {FallbackLow}]
        \cup [ok : {FALSE}, price : {NULL}, random : FallbackSamples]

\* request.form of a POST /trade: type, amount, leverage
TradeForms ==
    { [type |-> "long",  amount |-> 10, leverage |-> 10],
      [type |-> "short", amount |-> 10, leverage |-> 200] }

\* request.form['amount'] of a POST /deposit
DepositAmounts == {-1000000, 0, 1000000}

\* the trade ids a GET /close_trade/<trade_id> may name
TradeIds == 1..MaxRequests

NoResponse == [thread |-> 0, status |-> "none"]

Respond(t, status) == [thread |-> t, status |-> status]

---------------------------------------------------------------------------
(* Pure functions *)

\* mutant of get_btc_price: a failed fetch is passed on instead of replaced
get_btc_price_without_fallback(fetch) ==
    IF fetch.ok THEN fetch.price ELSE NULL

get_btc_price(fetch) ==
    IF fetch.ok THEN fetch.price ELSE fetch.random

\* round(x, 2): to the nearest cent, a tie to the even cent
round2(x) ==
    LET q == x \div Cent
        r == x % Cent
    IN  IF 2 * r < Cent THEN Cent * q
        ELSE IF 2 * r > Cent THEN Cent * (q + 1)
        ELSE IF q % 2 = 0 THEN Cent * q ELSE Cent * (q + 1)

\* mutant of calculate_pnl: a short gains as a long does
calculate_pnl_one_sided(trade, current_price) ==
    round2((current_price - trade.entry_price) * trade.amount * trade.leverage * PnlFactor
               - trade.entry_price * trade.amount * trade.fee)

calculate_pnl(trade, current_price) ==
    LET gross == IF trade.type = "long"
                 THEN (current_price - trade.entry_price) * trade.amount * trade.leverage * PnlFactor
                 ELSE (trade.entry_price - current_price) * trade.amount * trade.leverage * PnlFactor
    IN  round2(gross - trade.entry_price * trade.amount * trade.fee)

\* the fee term of calculate_pnl: trade['entry_price'] * trade['amount'] * trade['fee']
pnl_fee_term(trade) ==
    trade.entry_price * trade.amount * trade.fee

\* the same trade on the other side
OtherSide(trade) ==
    [trade EXCEPT !.type = IF @ = "long" THEN "short" ELSE "long"]

required_margin(price, amount, leverage) ==
    price * amount * leverage * MarginFactor

trade_fee(price, amount) ==
    price * amount * FeeFactor

\* mutant of trade_debit: the fee is not taken
trade_debit_without_fee(margin, fee) ==
    margin

\* mutant of trade_debit: the position is created and nothing is taken
trade_debit_nothing(margin, fee) ==
    0

\* the amount the UPDATE of trade() takes from the balance
trade_debit(margin, fee) ==
    margin + fee

\* the row INSERT INTO trades creates: pnl, status and closed_at take the table's defaults
NewTrade(id, user_id, type, amount, entry_price, leverage, fee) ==
    [id |-> id, user_id |-> user_id, type |-> type, amount |-> amount,
     entry_price |-> entry_price, leverage |-> leverage, fee |-> fee,
     pnl |-> 0, status |-> "open", closed_at |-> NULL]

\* mutant of ClosedTrade: closing a closed trade opens it again
ClosedTrade_toggle(row, pnl, timestamp) ==
    [row EXCEPT !.status = IF row.status = "open" THEN "closed" ELSE "open",
                !.pnl = pnl, !.closed_at = timestamp]

\* mutant of ClosedTrade: the realized pnl is not stored
ClosedTrade_without_pnl(row, pnl, timestamp) ==
    [row EXCEPT !.status = "closed", !.closed_at = timestamp]

\* mutant of ClosedTrade: the close settles the position at leverage 1
ClosedTrade_deleveraged(row, pnl, timestamp) ==
    [row EXCEPT !.status = "closed", !.pnl = pnl, !.closed_at = timestamp, !.leverage = 1]

\* the row after UPDATE trades SET status = 'closed', pnl = ?, closed_at = CURRENT_TIMESTAMP
ClosedTrade(row, pnl, timestamp) ==
    [row EXCEPT !.status = "closed", !.pnl = pnl, !.closed_at = timestamp]

\* fetchone() found no row
NoTrade ==
    [id |-> 0, user_id |-> NoUser, type |-> "none", amount |-> 0,
     entry_price |-> 0, leverage |-> 0, fee |-> 0,
     pnl |-> 0, status |-> "none", closed_at |-> NULL]

\* the locals of a thread that runs no handler
Idle ==
    [pc |-> "idle", user_id |-> NoUser, type |-> "none", amount |-> 0, leverage |-> 0,
     user_balance |-> 0, required_margin |-> 0, fee |-> 0,
     trade_id |-> 0, trade |-> NoTrade, current_price |-> 0, pnl |-> 0]

\* mutant of SelectTrade: the owner is not part of the WHERE clause
SelectTrade_of_anyone(d, trade_id, user_id) ==
    IF trade_id \in 1..Len(d.trades) THEN d.trades[trade_id] ELSE NoTrade

\* SELECT * FROM trades WHERE id = ? AND user_id = ?  (fetchone: the row or NoTrade)
SelectTrade(d, trade_id, user_id) ==
    IF trade_id \in 1..Len(d.trades) /\ d.trades[trade_id].user_id = user_id
    THEN d.trades[trade_id]
    ELSE NoTrade

\* 'user_id' in session
LoggedIn(t) == session[t] # NoUser

---------------------------------------------------------------------------
(* Initial state: the engine is constructed, the users are registered and
   the clients have logged in (or not) *)

InitWith(sessions, order_forms, fetch_outcomes) ==
    /\ session \in sessions
    /\ forms = order_forms
    /\ fetches = fetch_outcomes
    /\ btc_price \in {get_btc_price(f) : f \in fetch_outcomes}
    /\ timers = 1
    /\ db = [balance |-> [u \in Users |-> InitialBalance], trades |-> <<>>, deposits |-> <<>>]
    /\ writer = NoWriter
    /\ tx = db
    /\ th = [t \in Threads |-> Idle]
    /\ response = NoResponse
    /\ now = 1
    /\ nRequests = 0
    /\ ledger = [u \in Users |-> [deposits |-> 0, opens |-> 0, closes |-> 0]]
    /\ credited = [i \in TradeIds |-> 0]

Init == InitWith(Sessions, TradeForms, Fetches)

---------------------------------------------------------------------------
(* TradingEngine.update_price: the timer fires, the price is fetched and the
   next timer is started *)

\* mutant of UpdatePrice: the refresh starts no next timer
UpdatePrice_once ==
    /\ timers > 0
    /\ \E f \in fetches : btc_price' = get_btc_price(f)
    /\ timers' = timers - 1
    /\ response' = NoResponse
    /\ UNCHANGED <<db, writer, tx, session, forms, fetches, th, now, nRequests, ledger, credited>>

UpdatePrice ==
    /\ timers > 0
    /\ \E f \in fetches : btc_price' = get_btc_price(f)
    /\ timers' = (timers - 1) + 1
    /\ response' = NoResponse
    /\ UNCHANGED <<db, writer, tx, session, forms, fetches, th, now, nRequests, ledger, credited>>

---------------------------------------------------------------------------
(* A request without a logged-in session: every handler returns at once *)

\* mutant of NotLoggedIn: the deposit is recorded although nobody is logged in
NotLoggedIn_recorded(t) ==
    /\ th[t].pc = "idle"
    /\ ~LoggedIn(t)
    /\ writer = NoWriter
    /\ db' = [db EXCEPT !.deposits = Append(@, [user_id |-> NoUser, amount |-> 0, status |-> "completed"])]
    /\ tx' = db'
    /\ response' = Respond(t, "302 login")
    /\ UNCHANGED <<btc_price, timers, writer, session, forms, fetches, th, now, nRequests, ledger, credited>>

NotLoggedIn(t) ==
    /\ th[t].pc = "idle"
    /\ ~LoggedIn(t)
    /\ \E route \in {"deposit", "trade", "close_trade"} :
          response' = Respond(t, IF route = "trade" THEN "401 Not logged in" ELSE "302 login")
    /\ UNCHANGED <<btc_price, timers, db, writer, tx, session, forms, fetches, th, now, nRequests, ledger, credited>>

---------------------------------------------------------------------------
(* deposit(): UPDATE users, INSERT INTO deposits, commit *)

\* amount = float(request.form['amount'])
\* UPDATE users SET balance = balance + ? WHERE id = ?   (begins the transaction)
Deposit_Update(t) ==
    /\ th[t].pc = "idle"
    /\ LoggedIn(t)
    /\ nRequests < MaxRequests
    /\ writer = NoWriter
    /\ \E amount \in DepositAmounts :
          /\ th' = [th EXCEPT ![t] = [Idle EXCEPT !.pc = "dep_insert", !.user_id = session[t],
                                                  !.amount = amount]]
          /\ tx' = [db EXCEPT !.balance[session[t]] = @ + amount]
    /\ writer' = t
    /\ nRequests' = nRequests + 1
    /\ response' = NoResponse
    /\ UNCHANGED <<btc_price, timers, db, session, forms, fetches, now, ledger, credited>>

\* INSERT INTO deposits (user_id, amount, status) VALUES (?, ?, "completed")
Deposit_Insert(t) ==
    /\ th[t].pc = "dep_insert"
    /\ tx' = [tx EXCEPT !.deposits =
                 Append(@, [user_id |-> th[t].user_id, amount |-> th[t].amount, status |-> "completed"])]
    /\ th' = [th EXCEPT ![t].pc = "dep_commit"]
    /\ response' = NoResponse
    /\ UNCHANGED <<btc_price, timers, db, writer, session, forms, fetches, now, nRequests, ledger, credited>>

\* db.commit(); return redirect(url_for('index'))
Deposit_Commit(t) ==
    /\ th[t].pc = "dep_commit"
    /\ db' = tx
    /\ writer' = NoWriter
    /\ ledger' = [ledger EXCEPT ![th[t].user_id].deposits = @ + th[t].amount]
    /\ th' = [th EXCEPT ![t] = Idle]
    /\ response' = Respond(t, "302 index")
    /\ UNCHANGED <<btc_price, timers, tx, session, forms, fetches, now, nRequests, credited>>

\* the UPDATE finds the database locked by another connection for the whole
\* busy timeout of sqlite3.connect: OperationalError, the request ends with 500
Deposit_Locked(t) ==
    /\ th[t].pc = "idle"
    /\ LoggedIn(t)
    /\ nRequests < MaxRequests
    /\ writer \notin {NoWriter, t}
    /\ response' = Respond(t, "500")
    /\ UNCHANGED <<btc_price, timers, db, writer, tx, session, forms, fetches, th, now, nRequests, ledger, credited>>

---------------------------------------------------------------------------
(* trade(): SELECT the user, price -> margin, check, price -> fee,
   price -> INSERT INTO trades, UPDATE users, commit *)

\* user = SELECT * FROM users WHERE id = ?
Trade_Select(t) ==
    /\ th[t].pc = "idle"
    /\ LoggedIn(t)
    /\ nRequests < MaxRequests
    /\ \E form \in forms :
          th' = [th EXCEPT ![t] = [Idle EXCEPT !.pc = "tr_margin", !.user_id = session[t],
                                               !.type = form.type, !.amount = form.amount,
                                               !.leverage = form.leverage,
                                               !.user_balance = db.balance[session[t]]]]
    /\ nRequests' = nRequests + 1
    /\ response' = NoResponse
    /\ UNCHANGED <<btc_price, timers, db, writer, tx, session, forms, fetches, now, ledger, credited>>

\* required_margin = btc_price * amount * leverage * 0.01; the check passes
Trade_Margin(t) ==
    /\ th[t].pc = "tr_margin"
    /\ LET margin == required_margin(btc_price, th[t].amount, th[t].leverage)
       IN  /\ ~(th[t].user_balance < margin)
           /\ th' = [th EXCEPT ![t].pc = "tr_fee", ![t].required_margin = margin]
    /\ response' = NoResponse
    /\ UNCHANGED <<btc_price, timers, db, writer, tx, session, forms, fetches, now, nRequests, ledger, credited>>

\* if user['balance'] < required_margin: return 'Insufficient balance', 400
Trade_Insufficient(t) ==
    /\ th[t].pc = "tr_margin"
    /\ th[t].user_balance < required_margin(btc_price, th[t].amount, th[t].leverage)
    /\ th' = [th EXCEPT ![t] = Idle]
    /\ response' = Respond(t, "400 Insufficient balance")
    /\ UNCHANGED <<btc_price, timers, db, writer, tx, session, forms, fetches, now, nRequests, ledger, credited>>

\* fee = btc_price * amount * 0.001
Trade_Fee(t) ==
    /\ th[t].pc = "tr_fee"
    /\ th' = [th EXCEPT ![t].pc = "tr_insert", ![t].fee = trade_fee(btc_price, th[t].amount)]
    /\ response' = NoResponse
    /\ UNCHANGED <<btc_price, timers, db, writer, tx, session, forms, fetches, now, nRequests, ledger, credited>>

\* INSERT INTO trades (user_id, type, amount, entry_price, leverage, fee)
\* with entry_price = btc_price, read now   (begins the transaction)
Trade_Insert(t) ==
    /\ th[t].pc = "tr_insert"
    /\ writer = NoWriter
    /\ writer' = t
    /\ tx' = [db EXCEPT !.trades =
                 Append(@, NewTrade(Len(@) + 1, th[t].user_id, th[t].type, th[t].amount,
                                    btc_price, th[t].leverage, th[t].fee))]
    /\ th' = [th EXCEPT ![t].pc = "tr_update"]
    /\ response' = NoResponse
    /\ UNCHANGED <<btc_price, timers, db, session, forms, fetches, now, nRequests, ledger, credited>>

\* UPDATE users SET balance = balance - ? WHERE id = ?   (required_margin + fee)
Trade_Update(t) ==
    /\ th[t].pc = "tr_update"
    /\ tx' = [tx EXCEPT !.balance[th[t].user_id] = @ - trade_debit(th[t].required_margin, th[t].fee)]
    /\ th' = [th EXCEPT ![t].pc = "tr_commit"]
    /\ response' = NoResponse
    /\ UNCHANGED <<btc_price, timers, db, writer, session, forms, fetches, now, nRequests, ledger, credited>>

\* db.commit(); return jsonify({'success': True})
Trade_Commit(t) ==
    /\ th[t].pc = "tr_commit"
    /\ db' = tx
    /\ writer' = NoWriter
    /\ ledger' = [ledger EXCEPT ![th[t].user_id].opens = @ + (th[t].required_margin + th[t].fee)]
    /\ th' = [th EXCEPT ![t] = Idle]
    /\ response' = Respond(t, "200 success")
    /\ UNCHANGED <<btc_price, timers, tx, session, forms, fetches, now, nRequests, credited>>

\* the INSERT finds the database locked for the whole busy timeout: 500
Trade_Locked(t) ==
    /\ th[t].pc = "tr_insert"
    /\ writer \notin {NoWriter, t}
    /\ th' = [th EXCEPT ![t] = Idle]
    /\ response' = Respond(t, "500")
    /\ UNCHANGED <<btc_price, timers, db, writer, tx, session, forms, fetches, now, nRequests, ledger, credited>>

---------------------------------------------------------------------------
(* close_trade(trade_id): SELECT the trade, price -> pnl, UPDATE trades,
   UPDATE users, commit *)

\* trade = SELECT * FROM trades WHERE id = ? AND user_id = ?;  if trade:
Close_Select(t) ==
    /\ th[t].pc = "idle"
    /\ LoggedIn(t)
    /\ nRequests < MaxRequests
    /\ \E trade_id \in TradeIds :
          /\ SelectTrade(db, trade_id, session[t]) # NoTrade
          /\ th' = [th EXCEPT ![t] = [Idle EXCEPT !.pc = "cl_pnl", !.user_id = session[t],
                                                  !.trade_id = trade_id,
                                                  !.trade = SelectTrade(db, trade_id, session[t])]]
    /\ nRequests' = nRequests + 1
    /\ response' = NoResponse
    /\ UNCHANGED <<btc_price, timers, db, writer, tx, session, forms, fetches, now, ledger, credited>>

\* no such trade of this user: return redirect(url_for('index'))
Close_NotFound(t) ==
    /\ th[t].pc = "idle"
    /\ LoggedIn(t)
    /\ \E trade_id \in TradeIds : SelectTrade(db, trade_id, session[t]) = NoTrade
    /\ response' = Respond(t, "302 index")
    /\ UNCHANGED <<btc_price, timers, db, writer, tx, session, forms, fetches, th, now, nRequests, ledger, credited>>

\* pnl = trading_engine.calculate_pnl(dict(trade), trading_engine.btc_price)
Close_Pnl(t) ==
    /\ th[t].pc = "cl_pnl"
    /\ th' = [th EXCEPT ![t].pc = "cl_update", ![t].current_price = btc_price,
                        ![t].pnl = calculate_pnl(th[t].trade, btc_price)]
    /\ response' = NoResponse
    /\ UNCHANGED <<btc_price, timers, db, writer, tx, session, forms, fetches, now, nRequests, ledger, credited>>

\* UPDATE trades SET status = 'closed', pnl = ?, closed_at = CURRENT_TIMESTAMP WHERE id = ?
\* (begins the transaction)
Close_UpdateTrade(t) ==
    /\ th[t].pc = "cl_update"
    /\ writer = NoWriter
    /\ writer' = t
    /\ now' = now + 1
    /\ tx' = [db EXCEPT !.trades[th[t].trade_id] = ClosedTrade(@, th[t].pnl, now')]
    /\ th' = [th EXCEPT ![t].pc = "cl_balance"]
    /\ response' = NoResponse
    /\ UNCHANGED <<btc_price, timers, db, session, forms, fetches, nRequests, ledger, credited>>

\* UPDATE users SET balance = balance + ? WHERE id = ?   (pnl)
Close_UpdateBalance(t) ==
    /\ th[t].pc = "cl_balance"
    /\ tx' = [tx EXCEPT !.balance[th[t].user_id] = @ + th[t].pnl]
    /\ th' = [th EXCEPT ![t].pc = "cl_commit"]
    /\ response' = NoResponse
    /\ UNCHANGED <<btc_price, timers, db, writer, session, forms, fetches, now, nRequests, ledger, credited>>

\* db.commit(); return redirect(url_for('index'))
Close_Commit(t) ==
    /\ th[t].pc = "cl_commit"
    /\ db' = tx
    /\ writer' = NoWriter
    /\ ledger' = [ledger EXCEPT ![th[t].user_id].closes = @ + th[t].pnl]
    /\ credited' = [credited EXCEPT ![th[t].trade_id] = @ + 1]
    /\ th' = [th EXCEPT ![t] = Idle]
    /\ response' = Respond(t, "302 index")
    /\ UNCHANGED <<btc_price, timers, tx, session, forms, fetches, now, nRequests>>

\* the UPDATE finds the database locked for the whole busy timeout: 500
Close_Locked(t) ==
    /\ th[t].pc = "cl_update"
    /\ writer \notin {NoWriter, t}
    /\ th' = [th EXCEPT ![t] = Idle]
    /\ response' = Respond(t, "500")
    /\ UNCHANGED <<btc_price, timers, db, writer, tx, session, forms, fetches, now, nRequests, ledger, credited>>

---------------------------------------------------------------------------

Next ==
    \/ UpdatePrice
    \/ \E t \in Threads : NotLoggedIn(t)
    \/ \E t \in Threads : Deposit_Update(t)
    \/ \E t \in Threads : Deposit_Insert(t)
    \/ \E t \in Threads : Deposit_Commit(t)
    \/ \E t \in Threads : Deposit_Locked(t)
    \/ \E t \in Threads : Trade_Select(t)
    \/ \E t \in Threads : Trade_Margin(t)
    \/ \E t \in Threads : Trade_Insufficient(t)
    \/ \E t \in Threads : Trade_Fee(t)
    \/ \E t \in Threads : Trade_Insert(t)
    \/ \E t \in Threads : Trade_Update(t)
    \/ \E t \in Threads : Trade_Commit(t)
    \/ \E t \in Threads : Trade_Locked(t)
    \/ \E t \in Threads : Close_Select(t)
    \/ \E t \in Threads : Close_NotFound(t)
    \/ \E t \in Threads : Close_Pnl(t)
    \/ \E t \in Threads : Close_UpdateTrade(t)
    \/ \E t \in Threads : Close_UpdateBalance(t)
    \/ \E t \in Threads : Close_Commit(t)
    \/ \E t \in Threads : Close_Locked(t)

Spec == Init /\ [][Next]_vars

---------------------------------------------------------------------------
(* The same program on inputs nothing in the code excludes: a ticker whose
   well-formed response carries the price 0, and order forms with an
   unknown type, a negative amount and leverage 0 *)

\* well-formed responses of the upstream ticker, float(data['price']) succeeds on each
UncheckedPrices == {0, 500}

UncheckedFetches ==
    [ok : {TRUE}, price : UncheckedPrices, random : {FallbackLow}]
        \cup [ok : {FALSE}, price : {NULL}, random : FallbackSamples]

\* request.form of a POST /trade: float() and int() succeed on each
UncheckedForms ==
    { [type |-> "hold",  amount |-> -10, leverage |-> 0],
      [type |-> "short", amount |-> 10,  leverage |-> 200] }

InitUnchecked == InitWith(Sessions, UncheckedForms, UncheckedFetches)

SpecUnchecked == InitUnchecked /\ [][Next]_vars

---------------------------------------------------------------------------
(* calculate_pnl as a function: a close request has selected a stored trade
   and evaluates calculate_pnl on it at the current price *)

PnlAmounts == {1, 10}            \* 0.01 BTC, 0.1 BTC
PnlEntryPrices == {500, 501}     \* 50000.00, 50100.00
PnlExitPrices == {500, 501, 510}
PnlLeverages == {1, 10}
PnlFees == {0, 501, 5000}        \* values of the column fee: 0, 0.501, 5.00

PnlTrades ==
    { NewTrade(1, 1, type, amount, entry_price, leverage, fee) :
          type \in {"long", "short"}, amount \in PnlAmounts, entry_price \in PnlEntryPrices,
          leverage \in PnlLeverages, fee \in PnlFees }

InitPnl ==
    /\ session = <<1, NoUser>>
    /\ forms = TradeForms
    /\ fetches = [ok : {TRUE}, price : PnlExitPrices, random : {FallbackLow}]
    /\ btc_price \in PnlExitPrices
    /\ timers = 1
    /\ \E row \in PnlTrades :
          LET debit == trade_debit(required_margin(row.entry_price, row.amount, row.leverage), row.fee)
          IN  /\ db = [balance |-> [u \in Users |-> IF u = 1 THEN InitialBalance - debit ELSE InitialBalance],
                       trades |-> <<row>>, deposits |-> <<>>]
              /\ th = [t \in Threads |->
                          IF t = 1 THEN [Idle EXCEPT !.pc = "cl_pnl", !.user_id = 1, !.trade_id = 1,
                                                     !.trade = row]
                          ELSE Idle]
              /\ ledger = [u \in Users |-> [deposits |-> 0, opens |-> IF u = 1 THEN debit ELSE 0,
                                            closes |-> 0]]
    /\ writer = NoWriter
    /\ tx = db
    /\ response = NoResponse
    /\ now = 1
    /\ nRequests = 2
    /\ credited = [i \in TradeIds |-> 0]

NextPnl == \E t \in Threads : Close_Pnl(t)

SpecPnl == InitPnl /\ [][NextPnl]_vars

---------------------------------------------------------------------------
(* The same program while the upstream ticker is unreachable: every fetch
   fails and get_btc_price answers with its random fallback *)

\* results of random.uniform(30000, 60000): the two ends of the range
OutageSamples == {FallbackLow, FallbackHigh}

OutageFetches == [ok : {FALSE}, price : {NULL}, random : OutageSamples]

\* the order form the clients submit: its margin is 6000 at 30000 and 12000 at 60000
OutageForms == { [type |-> "short", amount |-> 10, leverage |-> 200] }

InitOutage == InitWith(Sessions, OutageForms, OutageFetches)

SpecOutage == InitOutage /\ [][Next]_vars

---------------------------------------------------------------------------
(* The same program with clients of two accounts: one logged in as user 1 and
   the other as user 2, or one as user 2 and the other not logged in *)

TwoUserSessions == { <<1, 2>>, <<2, NoUser>> }

\* the order form the clients submit: its margin is the whole initial balance at 50000
TwoUserForms == { [type |-> "short", amount |-> 10, leverage |-> 200] }

InitTwoUsers == InitWith(TwoUserSessions, TwoUserForms, Fetches)

SpecTwoUsers == InitTwoUsers /\ [][Next]_vars

\* the rows of user u in a sequence of records
RowsOf(records, u) ==
    { i \in 1..Len(records) : records[i].user_id = u }

---------------------------------------------------------------------------
(* The program with its scheduling: a started threading.Timer fires after its
   10 seconds and get_btc_price returns (requests.get is given a timeout and
   every exception is caught), so a pending refresh is eventually run.  The
   requests are as in Spec, with one order form; nothing is assumed about when
   or whether they arrive. *)

RefreshForms == { [type |-> "short", amount |-> 10, leverage |-> 200] }

InitRefresh == InitWith(Sessions, RefreshForms, Fetches)

SpecRefresh == InitRefresh /\ [][Next]_vars /\ WF_vars(UpdatePrice)

---------------------------------------------------------------------------
(* Properties *)

RECURSIVE SumAmounts(_, _)
\* the sum of the amounts of the deposit records of user u
SumAmounts(records, u) ==
    IF records = <<>> THEN 0
    ELSE (IF Head(records).user_id = u THEN Head(records).amount ELSE 0) + SumAmounts(Tail(records), u)

\* C1: in every reachable state, whatever the interleaving, each account's
\* committed balance is its initial balance plus the sum of the deposited
\* amounts (which are the amounts of its deposit records), minus margin + fee
\* of every committed open, plus the pnl of every committed close; since the
\* sums change only in the commits of deposit, trade and close_trade, no other
\* step changes a balance.
C1_BalanceIsLedgerSum ==
    \A u \in Users :
        /\ db.balance[u] = InitialBalance + ledger[u].deposits - ledger[u].opens + ledger[u].closes
        /\ ledger[u].deposits = SumAmounts(db.deposits, u)

\* a state after a deposit, an open and a close of the same account have committed
C1_Witness ==
    \E u \in Users :
        /\ ledger[u].deposits # 0
        /\ ledger[u].opens # 0
        /\ ledger[u].closes # 0
        /\ db.balance[u] # InitialBalance

\* C2 (as claimed): an open request whose margin plus fee, both at one price,
\* exceeds the balance it read fails with 'Insufficient balance' before any
\* write: no such request ever stands at or after its INSERT.
C2_Original ==
    \A t \in Threads :
        th[t].pc \in {"tr_insert", "tr_update", "tr_commit"} =>
            \A f \in fetches :
                LET price == get_btc_price(f)
                IN  (/\ th[t].required_margin = required_margin(price, th[t].amount, th[t].leverage)
                     /\ th[t].fee = trade_fee(price, th[t].amount))
                    => ~(th[t].required_margin + th[t].fee > th[t].user_balance)

\* C3 (as claimed): the commit of a close request that found its position
\* already closed (or found none: that request returns before any write)
\* changes no balance and no stored pnl, status or closing timestamp.
C3_Original ==
    [][\A t \in Threads :
          (th[t].pc = "cl_commit" /\ th'[t].pc = "idle" /\ th[t].trade.status = "closed")
              => (db'.balance = db.balance /\ db'.trades = db.trades)]_vars

\* C4 (as claimed): two concurrent opens of one account end as if run one after
\* the other in some order.  Stated for the second of two opens that both read
\* the initial balance, no deposit or close having committed: it does not
\* commit when in either order the later of the two fails the balance check.
C4_Original ==
    \A t \in Threads :
        LET u == th[t].user_id
            debit_t == trade_debit(th[t].required_margin, th[t].fee)
            debit_other == th[t].user_balance - db.balance[u]
        IN  (/\ th[t].pc = "tr_commit"
             /\ Len(db.deposits) = 0
             /\ \A i \in TradeIds : credited[i] = 0
             /\ Len(db.trades) = 1
             /\ db.trades[1].user_id = u
             /\ th[t].user_balance = InitialBalance
             /\ db.balance[u] # InitialBalance)
            => ~(/\ db.balance[u] < th[t].required_margin
                 /\ th[t].user_balance - debit_t < debit_other - db.trades[1].fee)

\* C5 (as claimed): of two concurrent closes of one open position exactly one
\* closes it: the commit of a close that read the position open, while the
\* other close has committed since, neither credits the balance nor writes the
\* position again.
C5_Original ==
    [][\A t \in Threads :
          (/\ th[t].pc = "cl_commit" /\ th'[t].pc = "idle"
           /\ th[t].trade.status = "open"
           /\ db.trades[th[t].trade_id].status = "closed")
              => (db'.balance = db.balance /\ db'.trades = db.trades)]_vars

\* C6 (as claimed): within one open request the margin, the fee and the stored
\* entry price come from one price: after the INSERT the margin and the fee of
\* the request are those of the entry price of the row it inserted.
C6_Original ==
    \A t \in Threads :
        th[t].pc \in {"tr_update", "tr_commit"} =>
            LET row == tx.trades[Len(tx.trades)]
            IN  /\ th[t].required_margin = required_margin(row.entry_price, row.amount, row.leverage)
                /\ row.fee = trade_fee(row.entry_price, row.amount)

\* C7 (as claimed): a deposit with amount <= 0 fails: no deposit record has an
\* amount <= 0, and while an account has only deposited, its balance is never
\* below the initial balance.
C7_Original ==
    /\ \A i \in 1..Len(db.deposits) : db.deposits[i].amount > 0
    /\ Len(db.trades) = 0 => \A u \in Users : db.balance[u] >= InitialBalance

\* C8: in every step of every behaviour no committed position is deleted, a
\* closed position stays closed, and a position that appears is open with
\* realized pnl 0.
C8_OpenToClosedOnly ==
    [][/\ Len(db'.trades) >= Len(db.trades)
       /\ \A i \in 1..Len(db.trades) :
             /\ db'.trades[i].id = db.trades[i].id
             /\ db'.trades[i].status \in {"open", "closed"}
             /\ db.trades[i].status = "closed" => db'.trades[i].status = "closed"
       /\ \A i \in (Len(db.trades) + 1)..Len(db'.trades) :
             /\ db'.trades[i].id = i
             /\ db'.trades[i].status = "open"
             /\ db'.trades[i].pnl = 0]_vars

\* a position that was closed, closed once more, and is closed
C8_Witness ==
    \E i \in 1..Len(db.trades) :
        /\ db.trades[i].status = "closed"
        /\ credited[i] >= 2

\* C9 (as claimed): a long opened at price P (fee P * size * 0.001 debited and
\* stored) and closed while the price is P has realized pnl = -fee.
C9_Original ==
    \A t \in Threads :
        (/\ th[t].pc \in {"cl_update", "cl_balance", "cl_commit"}
         /\ th[t].trade.type = "long"
         /\ th[t].trade.status = "open"
         /\ th[t].trade.fee = trade_fee(th[t].trade.entry_price, th[t].trade.amount)
         /\ th[t].current_price = th[t].trade.entry_price)
            => th[t].pnl = -th[t].trade.fee

\* C10 (as claimed): from balance 10000 at price 50000, a long of size 0.1 at
\* leverage 10 leaves balance 4995 and one open position; its close at price
\* 51000 has realized pnl 995 and leaves balance 5990.
C10_Original ==
    \A t \in Threads :
        LET u == th[t].user_id
        IN  (/\ th[t].pc = "cl_commit"
             /\ th[t].current_price = 510
             /\ th[t].trade = NewTrade(1, u, "long", 10, 500, 10, th[t].trade.fee)
             /\ Len(db.trades) = 1
             /\ db.trades[1] = th[t].trade
             /\ Len(db.deposits) = 0
             /\ ledger[u].opens = InitialBalance - db.balance[u])
            => /\ db.balance[u] = 4995000
               /\ tx.trades[1].pnl = 995000
               /\ tx.balance[u] = 5990000

\* C11 (as claimed): in every reachable state the price held by the engine is
\* strictly greater than 0, whatever the upstream source returns.
C11_Original ==
    btc_price > 0

\* C12 (as claimed): the commit of an open request on an account whose balance
\* was not negative leaves the balance not negative.
C12_Original ==
    [][\A t \in Threads :
          (/\ th[t].pc = "tr_commit" /\ th'[t].pc = "idle"
           /\ db.balance[th[t].user_id] >= 0)
              => db'.balance[th[t].user_id] >= 0]_vars

\* C13 (as claimed): for every entry price, exit price, size, leverage and fee,
\* the pnl of a long plus the fee term is exactly minus (the pnl of the short
\* with the same parameters plus the fee term).
C13_Original ==
    \A t \in Threads :
        th[t].pc = "cl_update" =>
            th[t].pnl + pnl_fee_term(th[t].trade)
                = -(calculate_pnl(OtherSide(th[t].trade), th[t].current_price) + pnl_fee_term(th[t].trade))

\* C13 (amended): calculate_pnl rounds to cents after it has subtracted the fee
\* term, so the pnl of one side plus the fee term is minus (the pnl of the
\* other side plus the fee term) up to one cent, and exactly so when the fee
\* term is a whole number of cents.
C13_SymmetricUpToRounding ==
    \A t \in Threads :
        th[t].pc = "cl_update" =>
            LET f == pnl_fee_term(th[t].trade)
                sum == (th[t].pnl + f) + (calculate_pnl(OtherSide(th[t].trade), th[t].current_price) + f)
            IN  /\ th[t].pnl = calculate_pnl(th[t].trade, th[t].current_price)
                /\ -Cent <= sum /\ sum <= Cent
                /\ f % Cent = 0 => sum = 0

\* calculate_pnl has been applied to a long at an exit price above the entry
\* price, with a fee term that is not a whole number of cents
C13_Witness ==
    \E t \in Threads :
        /\ th[t].pc = "cl_update"
        /\ th[t].trade.type = "long"
        /\ th[t].current_price > th[t].trade.entry_price
        /\ pnl_fee_term(th[t].trade) % Cent # 0
        /\ th[t].pnl # 0

\* C14 (as claimed): the commit of an open request debits the balance by
\* exactly price*size*leverage*0.01 + price*size*0.001, price being the entry
\* price of the position it creates, and creates exactly one position, of the
\* requesting account, with the requested side, size and leverage, status open
\* and realized pnl 0; every other position is unchanged.
C14_Original ==
    [][\A t \in Threads :
          (th[t].pc = "tr_commit" /\ th'[t].pc = "idle") =>
              LET u == th[t].user_id
                  n == Len(db.trades)
                  row == db'.trades[n + 1]
              IN  /\ Len(db'.trades) = n + 1
                  /\ \A i \in 1..n : db'.trades[i] = db.trades[i]
                  /\ u = session[t]
                  /\ row = NewTrade(n + 1, u, th[t].type, th[t].amount, row.entry_price,
                                    th[t].leverage, row.fee)
                  /\ db.balance[u] - db'.balance[u]
                         = required_margin(row.entry_price, row.amount, row.leverage)
                               + trade_fee(row.entry_price, row.amount)
                  /\ \A v \in Users \ {u} : db'.balance[v] = db.balance[v]]_vars

\* C15: a close request reads the price once, when it computes the pnl, and
\* keeps that pnl; its commit stores this pnl on the position and adds the same
\* amount to the owner's balance, and the amount is calculate_pnl of the
\* position at the price read in the close, whatever the price was at the open
\* and whatever refresh happens before the commit.
C15_CloseCreditsStoredPnl ==
    [][\A t \in Threads :
          /\ (th[t].pc = "cl_pnl" /\ th'[t].pc = "cl_update") =>
                 /\ th'[t].current_price = btc_price
                 /\ th'[t].pnl = calculate_pnl(th[t].trade, btc_price)
          /\ (th[t].pc \in {"cl_update", "cl_balance"} /\ th'[t].pc # "idle") =>
                 /\ th'[t].current_price = th[t].current_price
                 /\ th'[t].pnl = th[t].pnl
          /\ (th[t].pc = "cl_commit" /\ th'[t].pc = "idle") =>
                 LET u == th[t].user_id
                     row == db'.trades[th[t].trade_id]
                 IN  /\ row.status = "closed"
                     /\ row.user_id = u
                     /\ row.pnl = calculate_pnl(db.trades[th[t].trade_id], th[t].current_price)
                     /\ db'.balance[u] - db.balance[u] = row.pnl]_vars

\* a position opened at 50000 was closed once, at the price 51000 read in the
\* close, and the price has changed again since
C15_Witness ==
    \E i \in 1..Len(db.trades) :
        /\ db.trades[i].status = "closed"
        /\ credited[i] = 1
        /\ db.trades[i].entry_price = 500
        /\ db.trades[i].pnl = calculate_pnl(db.trades[i], 510)
        /\ ledger[db.trades[i].user_id].closes = db.trades[i].pnl
        /\ btc_price = 500

\* C16: the committed database changes only in the commit of a request, and
\* then by the whole effect of the request: a deposit record with its credit,
\* a new position with the debit of margin + fee, a closed position with the
\* credit of its pnl; a step that ends a request with an error changes neither
\* the committed database nor another request's transaction.
C16_CommitsAreUnits ==
    [][/\ db' # db =>
              \E t \in Threads :
                  LET u == th[t].user_id
                      id == th[t].trade_id
                  IN  /\ th'[t].pc = "idle"
                      /\ \/ /\ th[t].pc = "dep_commit"
                            /\ db'.deposits = Append(db.deposits,
                                   [user_id |-> u, amount |-> th[t].amount, status |-> "completed"])
                            /\ db'.balance = [db.balance EXCEPT ![u] = @ + th[t].amount]
                            /\ db'.trades = db.trades
                         \/ /\ th[t].pc = "tr_commit"
                            /\ Len(db'.trades) = Len(db.trades) + 1
                            /\ \A i \in 1..Len(db.trades) : db'.trades[i] = db.trades[i]
                            /\ db'.trades[Len(db'.trades)].user_id = u
                            /\ db'.balance = [db.balance EXCEPT ![u] = @ - (th[t].required_margin + th[t].fee)]
                            /\ db'.deposits = db.deposits
                         \/ /\ th[t].pc = "cl_commit"
                            /\ db'.trades = [db.trades EXCEPT ![id] = ClosedTrade(@, th[t].pnl, db'.trades[id].closed_at)]
                            /\ db'.balance = [db.balance EXCEPT ![u] = @ + th[t].pnl]
                            /\ db'.deposits = db.deposits
       /\ response'.status \in {"500", "400 Insufficient balance", "401 Not logged in", "302 login"} =>
              /\ db' = db
              /\ tx' = tx
              /\ writer' = writer]_vars

\* a request has read the committed balance while the transaction of another
\* open has inserted its position and not yet debited the balance
C16_Witness ==
    \E t, o \in Threads :
        /\ writer = t
        /\ th[t].pc = "tr_update"
        /\ Len(tx.trades) = Len(db.trades) + 1
        /\ tx.balance = db.balance
        /\ th[o].pc = "tr_margin"
        /\ th[o].user_balance = db.balance[th[o].user_id]
        /\ Len(db.trades) > 0

\* C17 (as claimed): every stored position has side long or short, size > 0,
\* leverage >= 1 and entry price > 0 (a request violating one of these creates
\* no position).
C17_Original ==
    \A i \in 1..Len(db.trades) :
        /\ db.trades[i].type \in {"long", "short"}
        /\ db.trades[i].amount > 0
        /\ db.trades[i].leverage >= 1
        /\ db.trades[i].entry_price > 0

\* C18: while every fetch fails, the price held by the engine and every entry
\* price stored is a fallback value in [30000, 60000], and no request is
\* answered with an error on account of the price: each response is one the
\* handlers give with a fetched price, and a 500 is given only while another
\* connection holds the database's write lock.
C18_FetchFailureAbsorbed ==
    /\ \A f \in fetches : ~f.ok
    /\ timers = 1
    /\ FallbackLow <= btc_price /\ btc_price <= FallbackHigh
    /\ \A i \in 1..Len(db.trades) :
           FallbackLow <= db.trades[i].entry_price /\ db.trades[i].entry_price <= FallbackHigh
    /\ response.status \in {"none", "200 success", "302 index", "302 login",
                            "400 Insufficient balance", "401 Not logged in", "500"}
    /\ response.status = "500" => writer \notin {NoWriter, response.thread}

\* while every fetch fails, a position was opened at one fallback price and
\* closed with success at another
C18_Witness ==
    /\ \A f \in fetches : ~f.ok
    /\ response.status = "302 index"
    /\ \E i \in 1..Len(db.trades) :
           /\ db.trades[i].status = "closed"
           /\ db.trades[i].entry_price = FallbackLow
           /\ db.trades[i].pnl = calculate_pnl(db.trades[i], FallbackHigh)
           /\ credited[i] = 1

\* C19: the balance, the positions and the deposit records of an account
\* change only in the commit of a request of a client logged in to that
\* account, and a close request selects only a position of its own account: a
\* close that names a position of another account changes nothing.
C19_OwnAccountOnly ==
    [][/\ \A u \in Users :
              (\/ db'.balance[u] # db.balance[u]
               \/ {db'.trades[i] : i \in RowsOf(db'.trades, u)} # {db.trades[i] : i \in RowsOf(db.trades, u)}
               \/ RowsOf(db'.deposits, u) # RowsOf(db.deposits, u))
                  => \E t \in Threads :
                         /\ session[t] = u
                         /\ th[t].user_id = u
                         /\ th[t].pc \in {"dep_commit", "tr_commit", "cl_commit"}
                         /\ th'[t].pc = "idle"
       /\ \A t \in Threads :
              th'[t].pc \in {"cl_pnl", "cl_update", "cl_balance", "cl_commit"}
                  => th'[t].trade.user_id = session[t]]_vars

\* the client of user 2 was answered by close_trade (no deposit and no position
\* of user 2 exists) while user 1 holds a position, which is still open, and
\* user 2's balance is the initial one
C19_Witness ==
    \E t \in Threads :
        /\ session[t] = 2
        /\ response = Respond(t, "302 index")
        /\ Len(db.trades) = 1
        /\ db.trades[1].user_id = 1
        /\ db.trades[1].status = "open"
        /\ RowsOf(db.deposits, 2) = {}
        /\ db.balance[2] = InitialBalance
        /\ db.balance[1] # InitialBalance

\* C20: no step changes the entry price, leverage, side, size or owner of a
\* committed position.
C20_PositionTermsImmutable ==
    [][\A i \in 1..Len(db.trades) :
          /\ i <= Len(db'.trades)
          /\ db'.trades[i].entry_price = db.trades[i].entry_price
          /\ db'.trades[i].leverage = db.trades[i].leverage
          /\ db'.trades[i].type = db.trades[i].type
          /\ db'.trades[i].amount = db.trades[i].amount
          /\ db'.trades[i].user_id = db.trades[i].user_id]_vars

\* a position was closed, another position was opened, and the price is no
\* longer the first position's entry price
C20_Witness ==
    /\ Len(db.trades) >= 2
    /\ db.trades[1].status = "closed"
    /\ credited[1] = 1
    /\ btc_price # db.trades[1].entry_price

\* C21: exactly one refresh timer is pending at all times, every refresh
\* (fetched or fallen back) leaves exactly one timer pending, and under fair
\* scheduling of the timer a refresh occurs again and again without end.
C21_RefreshForever ==
    /\ [](timers = 1)
    /\ [][UpdatePrice => timers' = 1]_vars
    /\ []<><<UpdatePrice>>_vars

\* the price was refreshed to 50000 after a position was opened at 51000, and
\* a timer is pending
C21_Witness ==
    /\ timers = 1
    /\ Len(db.trades) > 0
    /\ db.trades[1].entry_price = 510
    /\ btc_price = 500

\* C22: a request of a client that is not logged in is answered with 401 (trade)
\* or the redirect to login (deposit, close_trade) and changes nothing: no
\* balance, position or deposit record, committed or in a transaction, and the
\* client's thread never enters the body of a handler or takes the write lock.
C22_NoSessionNoEffect ==
    [][\A t \in Threads :
          session[t] = NoUser =>
              /\ th'[t] = Idle
              /\ writer' # t
              /\ response'.thread = t =>
                     /\ response'.status \in {"401 Not logged in", "302 login"}
                     /\ db' = db
                     /\ tx' = tx
                     /\ writer' = writer
                     /\ ledger' = ledger
                     /\ credited' = credited]_vars

\* a client that is not logged in was answered with 401 while the account of
\* the other client holds an open position and a deposit
C22_Witness ==
    \E t \in Threads :
        /\ session[t] = NoUser
        /\ response = Respond(t, "401 Not logged in")
        /\ Len(db.trades) > 0
        /\ db.trades[1].status = "open"
        /\ Len(db.deposits) > 0

====
